---- MODULE Spec2Model ----
(***************************************************************************)
(* Model of the authentication bootstrap of the Playwright test suite:     *)
(*   - conftest.py    create_auth_state (session fixture that persists     *)
(*                    results/auth.json) and auth_page (per-test fixture   *)
(*                    that builds a context from it);                      *)
(*   - dashbaord_page.py  DashboardPage.NavBarLinks (the e-mail + OTP      *)
(*                    login flow);                                         *)
(*   - base_page.py   safe_click / Hitclick / type_text;                   *)
(*   - google_utils.py get_latest_email, get_gmail_service, extract_otp    *)
(*                    and extract_text_from_message.                       *)
(* The browser, the web site, the mailbox and the human operator are the   *)
(* environment: each of their answers is a nondeterministic choice.        *)
(***************************************************************************)
EXTENDS Integers, Sequences, FiniteSets, TLC

\* ---- bounds -------------------------------------------------------------
MaxSessions == 2    \* pytest sessions run one after another on the same disk
MaxTests == 2       \* tests of one session that request auth_page
MaxAttempts == 2    \* calls of NavBarLinks
MaxTokens == 4      \* digit runs and separators a message text is made of
MaxDepth == 2       \* nesting of multipart containers in a message
MaxRetries == 4     \* largest `retries` passed to safe_click

\* ---- program constants --------------------------------------------------
retries == 3        \* safe_click(selector, retries=3, ...)
OtpLen == 6         \* otp_regex = r'\b(\d{6})\b'

\* ---- values -------------------------------------------------------------
None == "None"
Codes == {"482913"}

\* Selectors of the login flow (app_selectors/login_selectors.py)
EMAIL_INPUT == "input[name='email']"
CONTINUE_BUTTON == "button[name='commit']"
OTP_INPUT == "input[placeholder='6-digit code']"
SUBMIT_BUTTON == "//span[contains(text(),'Submit')]/parent::button"

\* Exceptions, as (type, subject) pairs
NoExc == [exc |-> "none", what |-> "none"]
TimeoutError(sel) == [exc |-> "TimeoutError", what |-> sel]
PytestFailed(msg) == [exc |-> "Failed", what |-> msg]
AttributeError(name) == [exc |-> "AttributeError", what |-> name]
TypeError == [exc |-> "TypeError", what |-> "exceptions must derive from BaseException"]
PlaywrightError(sel) == [exc |-> "Error", what |-> sel]
HttpError == [exc |-> "HttpError", what |-> "gmail"]

\* Attributes an instance of DashboardPage has: the fields set by
\* BasePage.__init__; neither class defines any selector as an attribute.
InstanceAttrs == {"page", "base_url", "default_timeout",
                  "_console_messages", "_requests", "_responses"}

\* Content of results/auth.json.  auth: the snapshot carries a logged-in
\* session; gen: the session (1..MaxSessions) that wrote it, 0 = older.
Absent == [kind |-> "absent", auth |-> FALSE, gen |-> 0]
Corrupt == [kind |-> "corrupt", auth |-> FALSE, gen |-> 0]
Snapshot(a, g) == [kind |-> "state", auth |-> a, gen |-> g]
NoFile == [kind |-> "nofile", auth |-> FALSE, gen |-> 0]
\* the file just after open(path, "w"), and a file holding the bytes of one
\* snapshot followed by the tail of a longer one
Truncated == [kind |-> "truncated", auth |-> FALSE, gen |-> 0]
Mixed == [kind |-> "mixed", auth |-> FALSE, gen |-> 0]
\* the snapshot taken by the other execution
PeerSnapshot(a) == Snapshot(a, -1)

\* Length of the file, in units: a logged-in snapshot carries the session
\* cookies that a logged-out one lacks.
Size(f) ==
    CASE f.kind = "state" -> IF f.auth THEN 2 ELSE 1
      [] f.kind = "mixed" -> 2
      [] OTHER -> 0

\* fh.write(data) on a handle opened with "w" earlier: the bytes of c go to
\* offset 0 and whatever another handle has put beyond them since stays
WriteOnto(f, c) == IF Size(f) > Size(c) THEN Mixed ELSE c

\* auth_path.exists()
Exists(f) == f.kind # "absent"

\* ---- message text and the OTP pattern (google_utils.py) ------------------

\* A text is a sequence of one-character strings; "" is <<>>.
DigitChars == {"1", "2"}
SepChars == {" ", "a", "_"}

\* characters of the bodies of the messages in the mailbox
Digits == {"0", "1", "2", "3", "4", "5", "6", "7", "8", "9"}
Letters == {"a", "c", "d", "e", "o"}

\* \d and \w of Python's re on these characters
IsDigit(c) == c \in Digits
IsWord(c) == c \in Digits \cup Letters \cup {"_"}

\* the character at index p is a word character; outside the text: no
WordAt(t, p) == p >= 1 /\ p <= Len(t) /\ IsWord(t[p])

\* Variant of \b that holds everywhere, i.e. the pattern (\d{6}) alone.
AtBoundary_Everywhere(t, p) == TRUE

\* \b just before index p: exactly one of the two neighbours is a word
\* character
AtBoundary(t, p) == WordAt(t, p - 1) # WordAt(t, p)

\* the pattern \b(\d{6})\b matches with its group starting at index i
MatchAt(t, i) ==
    /\ i >= 1 /\ i + OtpLen - 1 <= Len(t)
    /\ AtBoundary(t, i)
    /\ \A k \in i..(i + OtpLen - 1) : IsDigit(t[k])
    /\ AtBoundary(t, i + OtpLen)

RECURSIVE Str(_)
\* the Python string of a text
Str(t) == IF t = <<>> THEN "" ELSE Head(t) \o Str(Tail(t))

\* Variant of re.search that reports the rightmost match.
re_search_Last(t) ==
    LET starts == {i \in 1..Len(t) : MatchAt(t, i)} IN
    IF starts = {} THEN None
    ELSE LET i == CHOOSE j \in starts : \A k \in starts : j >= k
         IN Str(SubSeq(t, i, i + OtpLen - 1))

\* re.search(otp_regex, email_text) followed by match.group(1): the leftmost
\* match, None when there is none
re_search(t) ==
    LET starts == {i \in 1..Len(t) : MatchAt(t, i)} IN
    IF starts = {} THEN None
    ELSE LET i == CHOOSE j \in starts : \A k \in starts : j <= k
         IN Str(SubSeq(t, i, i + OtpLen - 1))

\* body.data as the Gmail API delivers it, and its decoding
\* base64.urlsafe_b64decode(body_data).decode('utf-8')
B64(t) == [enc |-> "base64url", of |-> t]
b64decode(d) == d.of

\* A MIME part: `body` always present, `data` and `parts` keys optional.
Leaf(mime, hasData, t) ==
    [mimeType |-> mime, hasData |-> hasData,
     data |-> IF hasData THEN B64(t) ELSE B64(<<>>),
     hasParts |-> FALSE, parts |-> <<>>]
Multipart(ps) ==
    [mimeType |-> "multipart/mixed", hasData |-> FALSE, data |-> B64(<<>>),
     hasParts |-> TRUE, parts |-> ps]
Message(payload) == [payload |-> payload]

\* Variant of the test at google_utils.py:67 that never descends.
HasNestedParts_Never(part) == FALSE

\* google_utils.py:67  `'parts' in part`
HasNestedParts(part) == part.hasParts

\* google_utils.py:62  `part.get('mimeType') == 'text/plain' and 'data' in part['body']`
IsPlainWithData(part) == part.mimeType = "text/plain" /\ part.hasData

RECURSIVE extract_text_from_message(_)
RECURSIVE ForParts(_, _)

\* google_utils.py:61-70  the loop `for part in parts`, from index i on;
\* falling out of the loop reaches `return ""`
ForParts(parts, i) ==
    IF i > Len(parts) THEN <<>>
    ELSE LET part == parts[i] IN
         IF IsPlainWithData(part) THEN b64decode(part.data)
         ELSE IF HasNestedParts(part)
              THEN LET result == extract_text_from_message(Message(part)) IN
                   IF result # <<>> THEN result ELSE ForParts(parts, i + 1)
              ELSE ForParts(parts, i + 1)

\* google_utils.py:55-77
extract_text_from_message(msg) ==
    LET payload == msg.payload
        parts == IF payload.hasParts THEN payload.parts ELSE <<>>
    IN  IF parts # <<>> THEN ForParts(parts, 1)
        ELSE IF payload.hasData THEN b64decode(payload.data)
        ELSE <<>>

\* google_utils.py:80-103
extract_otp(msg) == re_search(extract_text_from_message(msg))

\* ---- inputs of extract_otp ------------------------------------------------

Run(d, n) == [i \in 1..n |-> d]
RunLens == {OtpLen - 1, OtpLen, OtpLen + 1}
Tokens == {Run(d, n) : d \in DigitChars, n \in RunLens} \cup {<<c>> : c \in SepChars}

RECURSIVE TextsOf(_)
\* texts made of at most k tokens
TextsOf(k) ==
    IF k = 0 THEN {<<>>}
    ELSE LET S == TextsOf(k - 1) IN S \cup {t \o tok : t \in S, tok \in Tokens}
Texts == TextsOf(MaxTokens)

\* single-part messages whose body is one of the texts
TextMessages == {Message(Leaf("text/plain", TRUE, t)) : t \in Texts}

\* bodies of the parts of the structured messages
PlainBody == <<"a", " ">> \o Run("1", OtpLen) \o <<" ">>
HtmlBody == <<"a", " ">> \o Run("2", OtpLen) \o <<" ", "a">>
LeafParts == {Leaf("text/plain", TRUE, PlainBody),
              Leaf("text/html", TRUE, HtmlBody),
              Leaf("text/plain", FALSE, <<>>)}

\* the part lists of a multipart container: one or two parts
Siblings(S) == {<<a>> : a \in S} \cup {<<a, b>> : a \in S, b \in S}

RECURSIVE PartsOf(_)
\* parts nested at most d levels deep
PartsOf(d) ==
    IF d = 0 THEN LeafParts
    ELSE LET S == PartsOf(d - 1) IN S \cup {Multipart(ps) : ps \in Siblings(S)}
TreeMessages == {Message(p) : p \in PartsOf(MaxDepth)}

Messages == TextMessages \cup TreeMessages
EmptyMessage == Message(Leaf("text/plain", FALSE, <<>>))

\* ---- mailbox values ----------------------------------------------------

\* Content of TOKEN_FILE.  A credentials file written by creds.to_json()
\* carries the access token with its expiry, and the refresh token when the
\* authorization server issued one; src tells who wrote it.
NoToken == [kind |-> "absent", expired |-> FALSE, refresh_token |-> FALSE, src |-> "none"]
BadToken == [kind |-> "corrupt", expired |-> FALSE, refresh_token |-> FALSE, src |-> "none"]
Creds(e, r, w) == [kind |-> "creds", expired |-> e, refresh_token |-> r, src |-> w]
InitTokens == {NoToken, BadToken} \cup {Creds(e, r, "earlier") : e \in BOOLEAN, r \in BOOLEAN}

\* messages the query "subject:code" can bring up
CodeBody == <<"c", "o", "d", "e", " ", "4", "8", "2", "9", "1", "3", ".">>
OrderBody == <<"#", "1", "2", "3", "4", "5", "6", "7">>
Inbox == {Message(Leaf("text/plain", TRUE, CodeBody)),
          Message(Leaf("text/plain", TRUE, OrderBody))}
\* results.get('messages', []) with maxResults=1
Listings == {<<>>, <<"m1">>, <<"m2">>}

VARIABLES
    authFile,       \* content of AUTH_STATE_FILE (results/auth.json)
    \* create_auth_state (one invocation per pytest session)
    sessions,       \* sessions started so far
    pcC,            \* position inside create_auth_state
    recreate,       \* --recreate-auth of the current session
    fileBefore,     \* authFile when the current invocation started
    launches,       \* browsers launched by the current invocation
    loggedIn,       \* the bootstrap browser context holds a logged-in session
    wrote,          \* the current invocation has written authFile
    result,         \* "none", "path" (returned), or the exception raised
    \* auth_page (one invocation per test)
    tests,          \* tests finished in the current session
    pcA,            \* position inside auth_page
    passed,         \* file content handed to browser.new_context
    landmarkSeen,   \* wait_for_selector(DASHBOARD_HEADER) succeeded
    pageYielded,    \* a BasePage was handed to the test
    lastTest,       \* "none", "ran", "error"
    \* DashboardPage.NavBarLinks (one login attempt per call)
    attempts,       \* calls started so far
    pcN,            \* position inside NavBarLinks
    forced,         \* first stage at which the environment refused, or "none"
    emailFilled,    \* page.fill(EMAIL_INPUT, email) was done
    clickSel,       \* selector safe_click is working on
    clickTries,     \* iterations of safe_click's loop so far
    last_exc,       \* safe_click's last_exc
    retriesArg,     \* safe_click's parameter `retries`
    clickAttempts,  \* calls of Hitclick made by the current safe_click
    lastAttempt,    \* exception of the latest of them, NoExc if it clicked
    continueClicks, \* successful clicks of CONTINUE_BUTTON
    submitClicks,   \* successful clicks of SUBMIT_BUTTON
    otpWaits,       \* waits for OTP_INPUT at line 58
    mailQueries,    \* calls of get_latest_email
    otp_code,       \* NavBarLinks' otp_code
    otpFilled,      \* page.fill(OTP_INPUT, otp_code) was done
    failure,        \* exception that ended the attempt, NoExc if none
    \* extract_otp applied to one message
    msgIn,          \* the message object handed to extract_otp
    otpOut,         \* "pending", then what extract_otp returned
    \* get_latest_email / get_gmail_service (one call at a time)
    tokenFile,      \* content of TOKEN_FILE
    pcM,            \* position inside get_latest_email
    tokenRead,      \* TOKEN_FILE as get_gmail_service found it
    interactive,    \* calls of flow.run_local_server in this call
    tokenWrites,    \* writes of TOKEN_FILE in this call
    listed,         \* a listing was received in this call
    messages,       \* `messages` of that listing
    fetched,        \* ids passed to messages().get in this call
    mailOutcome,    \* "pending", then Return(v) or Raise
    authError,      \* exception caught at lines 116-122, "none" if none
    \* a second execution of create_auth_state on the same results/auth.json
    peerPc,         \* its position
    peerLoggedIn,   \* its browser context holds a logged-in session
    peerWrote,      \* it has written authFile
    lastWritten     \* the snapshot of the latest completed write of either

fixtureVars == <<sessions, pcC, recreate, fileBefore, launches, loggedIn, wrote, result>>
pageVars == <<tests, pcA, passed, landmarkSeen, pageYielded, lastTest>>
clickVars == <<retriesArg, clickAttempts, lastAttempt>>
loginVars == <<attempts, pcN, forced, emailFilled, clickSel, clickTries, last_exc, clickVars,
               continueClicks, submitClicks, otpWaits, mailQueries, otp_code,
               otpFilled, failure>>
extractVars == <<msgIn, otpOut>>
mailVars == <<tokenFile, pcM, tokenRead, interactive, tokenWrites, listed, messages, fetched,
              mailOutcome, authError>>
peerVars == <<peerPc, peerLoggedIn, peerWrote>>
auxVars == <<extractVars, mailVars, peerVars, lastWritten>>
vars == <<authFile, fixtureVars, pageVars, loginVars, auxVars>>

Return(v) == [raised |-> FALSE, ret |-> v]
Raise == [raised |-> TRUE, ret |-> None]
\* the call has not come back yet
Pending == [raised |-> FALSE, ret |-> "pending"]

\* no call of get_latest_email is in progress
MailIdle ==
    /\ pcM = "idle" /\ tokenRead = NoToken /\ interactive = 0 /\ tokenWrites = 0
    /\ listed = FALSE /\ messages = <<>> /\ fetched = <<>> /\ mailOutcome = Pending
    /\ authError = "none"

\* no second execution has started, nothing has been written
PeerIdle ==
    /\ peerPc = "idle" /\ peerLoggedIn = FALSE /\ peerWrote = FALSE
    /\ lastWritten = NoFile

InitFiles == {Absent, Corrupt, Snapshot(TRUE, 0), Snapshot(FALSE, 0)}

InitBootstrap ==
    /\ authFile \in InitFiles
    /\ sessions = 0 /\ pcC = "idle" /\ recreate = FALSE
    /\ fileBefore = authFile /\ launches = 0 /\ loggedIn = FALSE
    /\ wrote = FALSE /\ result = "none"
    /\ tests = 0 /\ pcA = "idle" /\ passed = NoFile
    /\ landmarkSeen = FALSE /\ pageYielded = FALSE /\ lastTest = "none"
    /\ attempts = 0 /\ pcN = "idle" /\ forced = "none"
    /\ emailFilled = FALSE /\ clickSel = "none" /\ clickTries = 0
    /\ last_exc = NoExc /\ continueClicks = 0 /\ submitClicks = 0
    /\ retriesArg = retries /\ clickAttempts = 0 /\ lastAttempt = NoExc
    /\ otpWaits = 0 /\ mailQueries = 0 /\ otp_code = None
    /\ otpFilled = FALSE /\ failure = NoExc

Init ==
    /\ InitBootstrap
    /\ msgIn = EmptyMessage /\ otpOut = "pending"
    /\ tokenFile = NoToken
    /\ MailIdle
    /\ PeerIdle

\* ---- create_auth_state --------------------------------------------------

\* Variants of the test at conftest.py:229, used to show that the reuse and
\* force-recreate properties depend on it.
UseExisting_InvertedExists(f, rec) == ~Exists(f) /\ ~rec
UseExisting_IgnoresFlag(f, rec) == Exists(f)

\* conftest.py:229  `auth_path.exists() and not recreate`
UseExisting(f, rec) == Exists(f) /\ ~rec

\* conftest.py:225-227  read the options; the fixture body starts
C_Start(r) ==
    /\ pcC = "idle" /\ sessions < MaxSessions
    /\ sessions' = sessions + 1
    /\ recreate' = r
    /\ fileBefore' = authFile
    /\ launches' = 0 /\ loggedIn' = FALSE /\ wrote' = FALSE /\ result' = "none"
    /\ pcC' = "check"
    /\ tests' = 0 /\ lastTest' = "none"
    /\ UNCHANGED <<authFile, pcA, passed, landmarkSeen, pageYielded, loginVars, auxVars>>

\* conftest.py:229-232
C_CheckExisting ==
    /\ pcC = "check"
    /\ IF UseExisting(authFile, recreate)
       THEN pcC' = "returned" /\ result' = "path"
       ELSE pcC' = "launch" /\ result' = result
    /\ UNCHANGED <<authFile, sessions, recreate, fileBefore, launches, loggedIn, wrote, pageVars, loginVars, auxVars>>

\* conftest.py:233-252  launch, new_context (no storage state), new_page
C_Launch ==
    /\ pcC = "launch"
    /\ launches' = launches + 1
    /\ loggedIn' = FALSE
    /\ \E ok \in BOOLEAN :
         IF ok THEN pcC' = "goto" /\ result' = result
               ELSE pcC' = "raised" /\ result' = "Error"
    /\ UNCHANGED <<authFile, sessions, recreate, fileBefore, wrote, pageVars, loginVars, auxVars>>

\* conftest.py:254  page.goto(..., wait_until="domcontentloaded")
C_Goto ==
    /\ pcC = "goto"
    /\ \E ok \in BOOLEAN :
         IF ok THEN pcC' = "sleep" /\ result' = result
               ELSE pcC' = "raised" /\ result' = "TimeoutError"
    /\ UNCHANGED <<authFile, sessions, recreate, fileBefore, launches, loggedIn, wrote, pageVars, loginVars, auxVars>>

\* conftest.py:255  time.sleep(150): the code performs no login step (lines
\* 256-287 are commented out); whether the visible browser ends up logged in
\* is up to whoever operates it during the pause.
C_Sleep ==
    /\ pcC = "sleep"
    /\ \E li \in BOOLEAN : loggedIn' = li
    /\ pcC' = "save"
    /\ UNCHANGED <<authFile, sessions, recreate, fileBefore, launches, wrote, result, pageVars, loginVars, auxVars>>

\* conftest.py:289-290  context.storage_state(path=...): the state is
\* exported and the file opened for writing, which empties it
C_StorageState ==
    /\ pcC = "save"
    /\ \E ok \in BOOLEAN :
         IF ok THEN /\ authFile' = Truncated
                    /\ pcC' = "write" /\ result' = result
               ELSE /\ authFile' = authFile
                    /\ pcC' = "raised" /\ result' = "Error"
    /\ UNCHANGED <<sessions, recreate, fileBefore, launches, loggedIn, wrote, pageVars,
                   loginVars, auxVars>>

\* conftest.py:290  context.storage_state(path=...): the snapshot is written
\* through the handle and the file closed
C_WriteState ==
    /\ pcC = "write"
    /\ authFile' = WriteOnto(authFile, Snapshot(loggedIn, sessions))
    /\ lastWritten' = Snapshot(loggedIn, sessions)
    /\ wrote' = TRUE
    /\ pcC' = "close"
    /\ UNCHANGED <<sessions, recreate, fileBefore, launches, loggedIn, result, pageVars,
                   loginVars, extractVars, mailVars, peerVars>>

\* conftest.py:291  context.close()
C_Close ==
    /\ pcC = "close"
    /\ pcC' = "exists"
    /\ UNCHANGED <<authFile, sessions, recreate, fileBefore, launches, loggedIn, wrote, result, pageVars, loginVars, auxVars>>

\* Variant of lines 293-296 that returns the path without looking.
C_ExistsCheck_AlwaysReturns ==
    /\ pcC = "exists"
    /\ pcC' = "returned" /\ result' = "path"
    /\ UNCHANGED <<authFile, sessions, recreate, fileBefore, launches, loggedIn, wrote,
                   pageVars, loginVars, auxVars>>

\* conftest.py:293-296
C_ExistsCheck ==
    /\ pcC = "exists"
    /\ IF ~Exists(authFile)
       THEN pcC' = "raised" /\ result' = "RuntimeError"
       ELSE pcC' = "returned" /\ result' = "path"
    /\ UNCHANGED <<authFile, sessions, recreate, fileBefore, launches, loggedIn, wrote, pageVars, loginVars, auxVars>>

\* The pytest session ends; the next one starts from the same disk.
C_End ==
    /\ pcC \in {"returned", "raised"} /\ pcA = "idle"
    /\ sessions < MaxSessions
    /\ pcC' = "idle"
    /\ UNCHANGED <<authFile, sessions, recreate, fileBefore, launches, loggedIn, wrote, result, pageVars, loginVars, auxVars>>

\* ---- auth_page ----------------------------------------------------------

\* conftest.py:83  the fixture depends on create_auth_state: when that raised,
\* pytest reports the test as an error and auth_page's body never runs.
A_FixtureError ==
    /\ pcA = "idle" /\ pcC = "raised" /\ tests < MaxTests
    /\ tests' = tests + 1
    /\ lastTest' = "error"
    /\ pageYielded' = FALSE /\ landmarkSeen' = FALSE /\ passed' = NoFile
    /\ pcA' = "idle"
    /\ UNCHANGED <<authFile, fixtureVars, loginVars, auxVars>>

\* conftest.py:85-86  browser.new_context(storage_state=<path>) reads and
\* decodes the file; an undecodable or missing file makes it raise.
A_NewContext ==
    /\ pcA = "idle" /\ pcC = "returned" /\ tests < MaxTests
    /\ passed' = authFile
    /\ pageYielded' = FALSE /\ landmarkSeen' = FALSE
    /\ IF authFile.kind = "state"
       THEN pcA' = "goto" /\ UNCHANGED <<tests, lastTest>>
       ELSE pcA' = "idle" /\ tests' = tests + 1 /\ lastTest' = "error"
    /\ UNCHANGED <<authFile, fixtureVars, loginVars, auxVars>>

\* conftest.py:87-88  page.goto(f"{base_url}/pages/configurators")
A_Goto ==
    /\ pcA = "goto"
    /\ \E ok \in BOOLEAN :
         IF ok THEN pcA' = "wait" /\ UNCHANGED <<tests, lastTest>>
               ELSE pcA' = "idle" /\ tests' = tests + 1 /\ lastTest' = "error"
    /\ UNCHANGED <<auxVars, authFile, fixtureVars, loginVars, passed, landmarkSeen, pageYielded>>

\* conftest.py:90-93  try: wait_for_selector(DASHBOARD_HEADER) except: print
\* The header "Welcome back ..." is rendered only for a logged-in session; a
\* logged-in snapshot may still have expired on the server.
A_WaitHeader ==
    /\ pcA = "wait"
    /\ \E seen \in (IF passed.auth THEN BOOLEAN ELSE {FALSE}) : landmarkSeen' = seen
    /\ pcA' = "yield"
    /\ UNCHANGED <<auxVars, authFile, fixtureVars, loginVars, tests, passed, pageYielded, lastTest>>

\* conftest.py:95  yield BasePage(page=page, base_url=base_url)
A_Yield ==
    /\ pcA = "yield"
    /\ pageYielded' = TRUE
    /\ pcA' = "test"
    /\ UNCHANGED <<auxVars, authFile, fixtureVars, loginVars, tests, passed, landmarkSeen, lastTest>>

\* Variant of line 96 in which closing the context saves its state back to
\* results/auth.json.
A_Teardown_SavingState ==
    /\ pcA = "test"
    /\ pcA' = "idle"
    /\ tests' = tests + 1
    /\ lastTest' = "ran"
    /\ authFile' = Snapshot(landmarkSeen, sessions)
    /\ UNCHANGED <<auxVars, fixtureVars, loginVars, passed, landmarkSeen, pageYielded>>

\* conftest.py:96  context.close() after the test
A_Teardown ==
    /\ pcA = "test"
    /\ pcA' = "idle"
    /\ tests' = tests + 1
    /\ lastTest' = "ran"
    /\ UNCHANGED <<auxVars, authFile, fixtureVars, loginVars, passed, landmarkSeen, pageYielded>>

\* ---- get_latest_email ---------------------------------------------------

\* creds.valid, for creds loaded from content c of TOKEN_FILE
Valid(c) == c.kind = "creds" /\ ~c.expired

\* google_utils.py:40  `not creds or not creds.valid`; creds is None when
\* TOKEN_FILE does not exist
NeedsLogin(c) == c.kind # "creds" \/ ~Valid(c)

\* Variant of the test at google_utils.py:41 that never refreshes.
CanRefresh_Never(c) == FALSE

\* google_utils.py:41  `creds and creds.expired and creds.refresh_token`
CanRefresh(c) == c.kind = "creds" /\ c.expired /\ c.refresh_token

\* Variant of the test at google_utils.py:129 that lets an empty list through.
NoMessages_Never(ms) == FALSE

\* google_utils.py:129  `not messages`
NoMessages(ms) == ms = <<>>

\* google_utils.py:114-122  get_gmail_service raised e: the except clauses
\* print and return None
AuthFails(e) ==
    /\ pcM' = "done" /\ authError' = e /\ mailOutcome' = Return(None)
    /\ UNCHANGED <<tokenFile, interactive, tokenWrites>>

\* google_utils.py:30-47, 114-122  get_gmail_service up to the point where
\* it returns, raises, or blocks in flow.run_local_server
M_Auth ==
    /\ pcM = "auth"
    /\ tokenRead' = tokenFile
    /\ IF tokenFile = BadToken
       THEN AuthFails("ValueError")                              \* line 37
       ELSE IF ~NeedsLogin(tokenFile)
       THEN /\ pcM' = "list"                                     \* line 52
            /\ UNCHANGED <<tokenFile, interactive, tokenWrites, authError, mailOutcome>>
       ELSE IF CanRefresh(tokenFile)
       THEN \E ok \in BOOLEAN :                                  \* line 42
              IF ok
              THEN /\ tokenFile' = Creds(FALSE, TRUE, "refresh") \* 49-50
                   /\ tokenWrites' = tokenWrites + 1
                   /\ pcM' = "list"
                   /\ UNCHANGED <<interactive, authError, mailOutcome>>
              ELSE AuthFails("RefreshError")
       ELSE \E secrets \in {"ok", "missing", "invalid"} :        \* 44-46
              IF secrets = "ok"
              THEN /\ pcM' = "authorizing"
                   /\ interactive' = interactive + 1
                   /\ UNCHANGED <<tokenFile, tokenWrites, authError, mailOutcome>>
              ELSE AuthFails(IF secrets = "missing" THEN "FileNotFoundError"
                             ELSE "ValueError")
    /\ UNCHANGED <<listed, messages, fetched, extractVars, peerVars, lastWritten, authFile, fixtureVars, pageVars,
                   loginVars>>

\* google_utils.py:46-52  the operator completes (or refuses) the consent
\* screen and flow.run_local_server returns (or raises); the new credentials
\* are written to TOKEN_FILE
M_Authorized ==
    /\ pcM = "authorizing"
    /\ \E granted \in BOOLEAN, r \in BOOLEAN :
         IF granted
         THEN /\ tokenFile' = Creds(FALSE, r, "flow")
              /\ tokenWrites' = tokenWrites + 1
              /\ pcM' = "list"
              /\ UNCHANGED <<interactive, authError, mailOutcome>>
         ELSE AuthFails("AccessDeniedError")
    /\ UNCHANGED <<tokenRead, listed, messages, fetched, extractVars, peerVars, lastWritten, authFile, fixtureVars,
                   pageVars, loginVars>>

\* google_utils.py:124-131  messages().list(maxResults=1, q=query).execute()
M_List ==
    /\ pcM = "list"
    /\ \E ok \in BOOLEAN, ms \in Listings :
         IF ~ok
         THEN /\ pcM' = "done" /\ mailOutcome' = Raise
              /\ UNCHANGED <<listed, messages>>
         ELSE /\ listed' = TRUE /\ messages' = ms
              /\ IF NoMessages(ms)
                 THEN pcM' = "done" /\ mailOutcome' = Return(None)
                 ELSE pcM' = "fetch" /\ mailOutcome' = mailOutcome
    /\ UNCHANGED <<tokenFile, tokenRead, interactive, tokenWrites, fetched, authError,
                   extractVars, peerVars, lastWritten, authFile, fixtureVars, pageVars, loginVars>>

\* google_utils.py:133-155  messages[0]['id'], messages().get(...).execute(),
\* extract_otp(msg)
M_Fetch ==
    /\ pcM = "fetch"
    /\ pcM' = "done"
    /\ IF messages = <<>>
       THEN mailOutcome' = Raise /\ fetched' = fetched            \* IndexError
       ELSE LET msg_id == messages[1] IN
            /\ fetched' = Append(fetched, msg_id)
            /\ \E ok \in BOOLEAN, msg \in Inbox :
                 mailOutcome' = IF ok THEN Return(extract_otp(msg)) ELSE Raise
    /\ UNCHANGED <<tokenFile, tokenRead, interactive, tokenWrites, listed, messages,
                   authError, extractVars, peerVars, lastWritten, authFile, fixtureVars, pageVars, loginVars>>

\* time passes: the access token in TOKEN_FILE reaches its expiry
E_Expire ==
    /\ Valid(tokenFile)
    /\ tokenFile' = [tokenFile EXCEPT !.expired = TRUE]
    /\ UNCHANGED <<pcM, tokenRead, interactive, tokenWrites, listed, messages, fetched,
                   mailOutcome, authError, extractVars, peerVars, lastWritten, authFile, fixtureVars,
                   pageVars, loginVars>>

\* ---- DashboardPage.NavBarLinks ------------------------------------------

\* Variant of the test at dashbaord_page.py:63 that lets every value through.
Truthy_Always(v) == TRUE

\* dashbaord_page.py:63  `if otp_code:` on a value that is None or a string
\* of six digits
Truthy(v) == v # None

\* `self.<name>` on a DashboardPage
HasAttr(name) == name \in InstanceAttrs

\* The attempt ends with exception e; stage is recorded when it is the first
\* refusal of the environment.
Fail(e, stage) ==
    /\ pcN' = "failed"
    /\ failure' = e
    /\ forced' = IF forced = "none" THEN stage ELSE forced

\* dashbaord_page.py:45  a test calls NavBarLinks(email)
N_Start ==
    /\ pcN \in {"idle", "failed", "returned"} /\ attempts < MaxAttempts
    /\ attempts' = attempts + 1
    /\ pcN' = "wait_email" /\ forced' = "none"
    /\ emailFilled' = FALSE /\ clickSel' = "none" /\ clickTries' = 0
    /\ last_exc' = NoExc /\ continueClicks' = 0 /\ submitClicks' = 0
    /\ retriesArg' = retries /\ clickAttempts' = 0 /\ lastAttempt' = NoExc
    /\ otpWaits' = 0 /\ mailQueries' = 0 /\ otp_code' = None
    /\ otpFilled' = FALSE /\ failure' = NoExc
    /\ UNCHANGED <<auxVars, authFile, fixtureVars, pageVars>>

\* dashbaord_page.py:47-48  wait_for_selector(EMAIL_INPUT, timeout=30000)
N_WaitEmail ==
    /\ pcN = "wait_email"
    /\ \E ok \in BOOLEAN :
         IF ok THEN pcN' = "type_email" /\ UNCHANGED <<failure, forced>>
               ELSE Fail(TimeoutError(EMAIL_INPUT), "EmailField")
    /\ UNCHANGED <<auxVars, authFile, fixtureVars, pageVars, attempts, emailFilled, clickSel,
                   clickTries, last_exc, clickVars, continueClicks, submitClicks, otpWaits,
                   mailQueries, otp_code, otpFilled>>

\* Variant of lines 49-50 that goes on to the continue control without
\* filling the e-mail field.
N_TypeEmail_Skipped ==
    /\ pcN = "type_email"
    /\ pcN' = "wait_continue"
    /\ UNCHANGED <<auxVars, authFile, fixtureVars, pageVars, attempts, forced,
                   emailFilled, clickSel, clickTries, last_exc, clickVars, continueClicks,
                   submitClicks, otpWaits, mailQueries, otp_code, otpFilled, failure>>

\* dashbaord_page.py:49-50, base_page.py:151-154  type_text(EMAIL_INPUT, email)
N_TypeEmail ==
    /\ pcN = "type_email"
    /\ \E ok \in BOOLEAN :
         IF ok THEN /\ emailFilled' = TRUE
                    /\ pcN' = "wait_continue" /\ UNCHANGED <<failure, forced>>
               ELSE /\ emailFilled' = emailFilled
                    /\ Fail(TimeoutError(EMAIL_INPUT), "EmailField")
    /\ UNCHANGED <<auxVars, authFile, fixtureVars, pageVars, attempts, clickSel,
                   clickTries, last_exc, clickVars, continueClicks, submitClicks, otpWaits,
                   mailQueries, otp_code, otpFilled>>

\* dashbaord_page.py:53-55  wait for CONTINUE_BUTTON attached, then enter
\* safe_click(CONTINUE_BUTTON) (base_page.py:110: last_exc = None)
N_WaitContinue ==
    /\ pcN = "wait_continue"
    /\ \E ok \in BOOLEAN :
         IF ok THEN /\ pcN' = "click" /\ clickSel' = CONTINUE_BUTTON
                    /\ clickTries' = 0 /\ last_exc' = NoExc
                    /\ retriesArg' = retries /\ clickAttempts' = 0 /\ lastAttempt' = NoExc
                    /\ UNCHANGED <<failure, forced>>
               ELSE /\ Fail(TimeoutError(CONTINUE_BUTTON), "Continue")
                    /\ UNCHANGED <<clickSel, clickTries, last_exc, clickVars>>
    /\ UNCHANGED <<auxVars, authFile, fixtureVars, pageVars, attempts, emailFilled,
                   continueClicks, submitClicks, otpWaits,
                   mailQueries, otp_code, otpFilled>>

\* base_page.py:101-106  what Hitclick(selector) can raise: the timeout of
\* wait_for or click, or another Playwright error of click
HitclickErrors(sel) == {TimeoutError(sel), PlaywrightError(sel)}

\* base_page.py:108-118 safe_click, 101-106 Hitclick: one iteration of the loop
\* `for _ in range(retries)`, or, the loop exhausted, `raise last_exc`.
N_SafeClick ==
    /\ pcN = "click"
    /\ IF clickTries < retriesArg
       THEN /\ clickAttempts' = clickAttempts + 1
            /\ \E ok \in BOOLEAN, e \in HitclickErrors(clickSel) :
                 IF ok
                 THEN /\ continueClicks' = continueClicks + (IF clickSel = CONTINUE_BUTTON THEN 1 ELSE 0)
                      /\ submitClicks' = submitClicks + (IF clickSel = SUBMIT_BUTTON THEN 1 ELSE 0)
                      /\ pcN' = IF clickSel = CONTINUE_BUTTON THEN "wait_otp" ELSE "returned"
                      /\ lastAttempt' = NoExc
                      /\ UNCHANGED <<clickTries, last_exc, failure, forced>>
                 ELSE /\ last_exc' = e
                      /\ lastAttempt' = e
                      /\ clickTries' = clickTries + 1
                      /\ UNCHANGED <<pcN, continueClicks, submitClicks, failure, forced>>
       ELSE /\ Fail(IF last_exc = NoExc THEN TypeError ELSE last_exc,
                    IF clickSel = CONTINUE_BUTTON THEN "Continue" ELSE "Submit")
            /\ UNCHANGED <<clickTries, last_exc, continueClicks, submitClicks,
                           clickAttempts, lastAttempt>>
    /\ UNCHANGED <<auxVars, authFile, fixtureVars, pageVars, attempts, emailFilled, clickSel,
                   retriesArg, otpWaits, mailQueries, otp_code, otpFilled>>

\* dashbaord_page.py:57-58  wait_for_selector(OTP_INPUT, timeout=120000)
N_WaitOtp ==
    /\ pcN = "wait_otp"
    /\ otpWaits' = otpWaits + 1
    /\ \E ok \in BOOLEAN :
         IF ok THEN pcN' = "get_otp" /\ UNCHANGED <<failure, forced>>
               ELSE Fail(TimeoutError(OTP_INPUT), "OtpField")
    /\ UNCHANGED <<auxVars, authFile, fixtureVars, pageVars, attempts, emailFilled, clickSel,
                   clickTries, last_exc, clickVars, continueClicks, submitClicks,
                   mailQueries, otp_code, otpFilled>>

\* dashbaord_page.py:60-62  NavBarLinks calls get_latest_email("subject:code")
N_GetOtp ==
    /\ pcN = "get_otp" /\ pcM = "idle"
    /\ mailQueries' = mailQueries + 1
    /\ pcN' = "in_mail" /\ pcM' = "auth"
    /\ UNCHANGED <<tokenFile, tokenRead, interactive, tokenWrites, listed, messages,
                   fetched, mailOutcome, authError>>
    /\ UNCHANGED <<extractVars, peerVars, lastWritten, authFile, fixtureVars, pageVars, attempts, forced,
                   emailFilled, clickSel, clickTries, last_exc, clickVars, continueClicks,
                   submitClicks, otpWaits, otp_code, otpFilled, failure>>

\* dashbaord_page.py:62-67  get_latest_email has returned or raised; the
\* value is bound to otp_code and tested
N_CheckOtp ==
    /\ pcN = "in_mail" /\ pcM = "done"
    /\ LET r == mailOutcome IN
       IF r.raised
       THEN /\ Fail(HttpError, "MailboxError")
            /\ otp_code' = otp_code
       ELSE /\ otp_code' = r.ret
            /\ IF Truthy(r.ret)
               THEN pcN' = "enter_otp" /\ UNCHANGED <<failure, forced>>
               ELSE Fail(PytestFailed("Unable to Get the OTP from Email"), "Mailbox")
    /\ pcM' = "idle" /\ tokenRead' = NoToken /\ interactive' = 0 /\ tokenWrites' = 0
    /\ listed' = FALSE /\ messages' = <<>> /\ fetched' = <<>> /\ mailOutcome' = Pending
    /\ authError' = "none"
    /\ UNCHANGED <<tokenFile, extractVars, peerVars, lastWritten, authFile, fixtureVars, pageVars, attempts,
                   emailFilled, clickSel, clickTries, last_exc, clickVars, continueClicks,
                   submitClicks, otpWaits, mailQueries, otpFilled>>

\* dashbaord_page.py:69-72  line 70 evaluates `self.OTP_INPUT` before anything
\* else in the block; then wait, type_text(OTP_INPUT, otp_code) and entry
\* into safe_click(SUBMIT_BUTTON).
N_EnterOtp ==
    /\ pcN = "enter_otp"
    /\ IF ~HasAttr("OTP_INPUT")
       THEN /\ Fail(AttributeError("OTP_INPUT"), "none")
            /\ UNCHANGED <<otpFilled, clickSel, clickTries, last_exc, clickVars>>
       ELSE \E ok \in BOOLEAN :
              IF ok THEN /\ otpFilled' = TRUE
                         /\ pcN' = "click" /\ clickSel' = SUBMIT_BUTTON
                         /\ clickTries' = 0 /\ last_exc' = NoExc
                         /\ retriesArg' = retries /\ clickAttempts' = 0 /\ lastAttempt' = NoExc
                         /\ UNCHANGED <<failure, forced>>
                    ELSE /\ Fail(TimeoutError(OTP_INPUT), "OtpFill")
                         /\ UNCHANGED <<otpFilled, clickSel, clickTries, last_exc, clickVars>>
    /\ UNCHANGED <<auxVars, authFile, fixtureVars, pageVars, attempts, emailFilled,
                   continueClicks, submitClicks, otpWaits, mailQueries, otp_code>>

Next ==
    \/ N_Start
    \/ N_WaitEmail
    \/ N_TypeEmail
    \/ N_WaitContinue
    \/ N_SafeClick
    \/ N_WaitOtp
    \/ N_GetOtp
    \/ M_Auth
    \/ M_Authorized
    \/ M_List
    \/ M_Fetch
    \/ N_CheckOtp
    \/ N_EnterOtp
    \/ \E r \in BOOLEAN : C_Start(r)
    \/ C_CheckExisting
    \/ C_Launch
    \/ C_Goto
    \/ C_Sleep
    \/ C_StorageState
    \/ C_WriteState
    \/ C_Close
    \/ C_ExistsCheck
    \/ C_End
    \/ A_FixtureError
    \/ A_NewContext
    \/ A_Goto
    \/ A_WaitHeader
    \/ A_Yield
    \/ A_Teardown

\* Both fixtures and the login flow, from a checkout that has no TOKEN_FILE
\* yet.
Spec == Init /\ [][Next]_vars

\* ---- two executions on the same results/auth.json -------------------------

\* conftest.py:225-232  the other execution starts create_auth_state
P_Start(r) ==
    /\ peerPc = "idle"
    /\ peerPc' = IF UseExisting(authFile, r) THEN "finished" ELSE "launch"
    /\ UNCHANGED <<peerLoggedIn, peerWrote, lastWritten, authFile, fixtureVars,
                   pageVars, loginVars, extractVars, mailVars>>

\* conftest.py:233-255  launch, new_context, goto, sleep(150)
P_Bootstrap ==
    /\ peerPc = "launch"
    /\ \E ok \in BOOLEAN, li \in BOOLEAN :
         IF ok THEN peerPc' = "save" /\ peerLoggedIn' = li
               ELSE peerPc' = "finished" /\ peerLoggedIn' = peerLoggedIn
    /\ UNCHANGED <<peerWrote, lastWritten, authFile, fixtureVars, pageVars, loginVars,
                   extractVars, mailVars>>

\* conftest.py:289-290  storage_state(path=...): export, open for writing
P_StorageState ==
    /\ peerPc = "save"
    /\ \E ok \in BOOLEAN :
         IF ok THEN authFile' = Truncated /\ peerPc' = "write"
               ELSE authFile' = authFile /\ peerPc' = "finished"
    /\ UNCHANGED <<peerLoggedIn, peerWrote, lastWritten, fixtureVars, pageVars,
                   loginVars, extractVars, mailVars>>

\* conftest.py:290  storage_state(path=...): write and close the file
P_WriteState ==
    /\ peerPc = "write"
    /\ authFile' = WriteOnto(authFile, PeerSnapshot(peerLoggedIn))
    /\ lastWritten' = PeerSnapshot(peerLoggedIn)
    /\ peerWrote' = TRUE
    /\ peerPc' = "close"
    /\ UNCHANGED <<peerLoggedIn, fixtureVars, pageVars, loginVars, extractVars, mailVars>>

\* conftest.py:291-296  context.close(), the exists() check, return
P_Finish ==
    /\ peerPc = "close"
    /\ peerPc' = "finished"
    /\ UNCHANGED <<peerLoggedIn, peerWrote, lastWritten, authFile, fixtureVars,
                   pageVars, loginVars, extractVars, mailVars>>

NextConc ==
    \/ \E r \in BOOLEAN : C_Start(r)
    \/ C_CheckExisting
    \/ C_Launch
    \/ C_Goto
    \/ C_Sleep
    \/ C_StorageState
    \/ C_WriteState
    \/ C_Close
    \/ C_ExistsCheck
    \/ C_End
    \/ A_FixtureError
    \/ A_NewContext
    \/ A_Goto
    \/ A_WaitHeader
    \/ A_Yield
    \/ A_Teardown
    \/ \E r \in BOOLEAN : P_Start(r)
    \/ P_Bootstrap
    \/ P_StorageState
    \/ P_WriteState
    \/ P_Finish

SpecConc == Init /\ [][NextConc]_vars

\* ---- the fixtures on a disk that something else cleans up ----------------

\* results/auth.json is removed from outside (an operator, a clean-up job).
\* Not while create_auth_state holds it open for writing: open() on Windows,
\* where the suite runs (TOKEN_FILE is built with backslashes), does not
\* share the file for deletion.
E_RemoveFile ==
    /\ Exists(authFile) /\ pcC # "write"
    /\ authFile' = Absent
    /\ UNCHANGED <<fixtureVars, pageVars, loginVars, auxVars>>

NextDisk ==
    \/ \E r \in BOOLEAN : C_Start(r)
    \/ C_CheckExisting
    \/ C_Launch
    \/ C_Goto
    \/ C_Sleep
    \/ C_StorageState
    \/ C_WriteState
    \/ C_Close
    \/ C_ExistsCheck
    \/ C_End
    \/ A_FixtureError
    \/ A_NewContext
    \/ A_Goto
    \/ A_WaitHeader
    \/ A_Yield
    \/ A_Teardown
    \/ E_RemoveFile

SpecDisk == Init /\ [][NextDisk]_vars

\* ---- the login flow with the mailbox on its own ---------------------------

\* TOKEN_FILE may be in any state earlier runs or the operator left it in.
InitLogin ==
    /\ InitBootstrap /\ authFile = Absent
    /\ msgIn = EmptyMessage /\ otpOut = "pending"
    /\ tokenFile \in InitTokens
    /\ MailIdle /\ PeerIdle

\* the steps the program takes by itself once NavBarLinks has been called:
\* every wait of the flow comes back when its timeout runs out
LoginStep ==
    \/ N_WaitEmail
    \/ N_TypeEmail
    \/ N_WaitContinue
    \/ N_SafeClick
    \/ N_WaitOtp
    \/ N_GetOtp
    \/ M_Auth
    \/ M_List
    \/ M_Fetch
    \/ N_CheckOtp
    \/ N_EnterOtp

NextLogin ==
    \/ N_Start
    \/ LoginStep
    \/ M_Authorized
    \/ E_Expire

SpecLogin == InitLogin /\ [][NextLogin]_vars

\* The program's own steps are taken as long as one is possible; the
\* operator's answer to the consent screen (M_Authorized), the passing of
\* time and further calls of NavBarLinks are not promised.
SpecLoginFair == SpecLogin /\ WF_vars(LoginStep)

\* ---- safe_click on its own -------------------------------------------------

\* base_page.py:108-110  a caller invokes safe_click(sel, retries=n); pcN and
\* attempts stand for the position in, and the number of, these calls
K_Call(n, sel) ==
    /\ pcN \in {"idle", "wait_otp", "returned", "failed"} /\ attempts < MaxAttempts
    /\ attempts' = attempts + 1
    /\ pcN' = "click" /\ clickSel' = sel
    /\ retriesArg' = n
    /\ clickTries' = 0 /\ last_exc' = NoExc
    /\ clickAttempts' = 0 /\ lastAttempt' = NoExc
    /\ continueClicks' = 0 /\ submitClicks' = 0
    /\ failure' = NoExc /\ forced' = "none"
    /\ UNCHANGED <<auxVars, authFile, fixtureVars, pageVars, emailFilled, otpWaits,
                   mailQueries, otp_code, otpFilled>>

NextClick ==
    \/ \E n \in 0..MaxRetries, sel \in {CONTINUE_BUTTON, SUBMIT_BUTTON} : K_Call(n, sel)
    \/ N_SafeClick

SpecClick == InitLogin /\ [][NextClick]_vars

\* ---- extract_otp on its own --------------------------------------------

InitExtract ==
    /\ InitBootstrap /\ authFile = Absent
    /\ msgIn \in Messages /\ otpOut = "pending"
    /\ tokenFile = NoToken /\ MailIdle /\ PeerIdle

\* google_utils.py:153  otp = extract_otp(msg)
X_ExtractOtp ==
    /\ otpOut = "pending"
    /\ otpOut' = extract_otp(msgIn)
    /\ UNCHANGED <<msgIn, authFile, fixtureVars, pageVars, loginVars, mailVars, peerVars,
                   lastWritten>>

NextExtract == X_ExtractOtp
SpecExtract == InitExtract /\ [][NextExtract]_vars

\* ---- properties --------------------------------------------------------

Terminal == {"returned", "raised"}
AttemptOver == pcN \in {"failed", "returned"}

\* C1 (as stated): a login attempt in which the environment refuses nothing
\* (every wait succeeds, the mailbox returns a code) ends with the OTP filled
\* and submitted, not in a failure.
C1_AllStagesSucceed ==
    (AttemptOver /\ forced = "none") =>
        (pcN = "returned" /\ otpFilled /\ submitClicks = 1)

\* C2 (as stated): an invocation of create_auth_state has written the Session
\* State only if its browser reached the logged-in dashboard.
C2_WriteOnlyWhenConfirmed == wrote => loggedIn

\* C3: an invocation with --recreate-auth unset that finds results/auth.json
\* launches no browser, writes nothing and returns the existing path; every
\* context of the session is built from that unchanged file.
C3_ReuseRunsNoLogin ==
    (pcC # "idle" /\ ~recreate /\ Exists(fileBefore)) =>
        /\ launches = 0 /\ ~wrote
        /\ pcC \in {"check", "returned"}
        /\ authFile = fileBefore
        /\ (pcA # "idle" => passed = fileBefore)

C3_Witness ==
    /\ sessions = 2 /\ pcC = "returned" /\ ~recreate /\ Exists(fileBefore)
    /\ tests = 1 /\ pcA = "test" /\ passed = fileBefore

\* C4: no invocation launches more than one browser; an invocation with
\* --recreate-auth set launches exactly one, whether or not the file existed,
\* and when it returns the file holds the snapshot it has just taken.
C4_ForceRecreateOneBootstrap ==
    /\ launches <= 1
    /\ (recreate /\ pcC \notin {"idle", "check", "launch"}) => launches = 1
    /\ (recreate /\ pcC = "returned") =>
           (wrote /\ authFile = Snapshot(loggedIn, sessions))

C4_Witness ==
    /\ pcC = "returned" /\ recreate /\ Exists(fileBefore)
    /\ launches = 1 /\ authFile.gen = sessions

\* C5 (as stated): an undecodable results/auth.json is never handed to
\* browser.new_context; the invocation that finds it bootstraps instead.
C5_CorruptTreatedAsAbsent ==
    /\ passed.kind # "corrupt"
    /\ (pcC = "returned" /\ fileBefore.kind = "corrupt") => launches = 1

\* C6 (as stated): a test receives a page only when the dashboard landmark
\* was confirmed for its context.
C6_NoPageWithoutLandmark == pageYielded => landmarkSeen

\* C7 (as stated): an invocation that found a persisted Session State and
\* ends without a logged-in session (it raised, or its browser never got past
\* the login) leaves results/auth.json as it found it.
C7_FailedAttemptKeepsFile ==
    (/\ pcC \in Terminal /\ launches = 1 /\ fileBefore.kind = "state"
     /\ (result # "path" \/ ~loggedIn)) =>
        authFile = fileBefore

\* C8 (as stated): an attempt fails on the OTP field only after a second
\* wait for it (one reload and retry) has timed out as well.
C8_OtpWaitRetriedOnce ==
    (pcN = "failed" /\ forced = "OtpField") => otpWaits = 2

\* C9: when get_latest_email returns no code, the attempt has ended with
\* pytest's failure "Unable to Get the OTP from Email", the OTP input was not
\* filled and submit was not clicked; and no step of NavBarLinks changes
\* results/auth.json.
C9_NoCodeFails ==
    /\ [](  (mailQueries = 1 /\ pcN # "in_mail" /\ otp_code = None
             /\ failure # HttpError) =>
              /\ pcN = "failed"
              /\ failure = PytestFailed("Unable to Get the OTP from Email")
              /\ ~otpFilled /\ submitClicks = 0 )
    /\ [][loginVars' # loginVars => authFile' = authFile]_vars

C9_Witness ==
    /\ pcN = "failed" /\ mailQueries = 1 /\ otp_code = None
    /\ failure = PytestFailed("Unable to Get the OTP from Email")
    /\ otpWaits = 1 /\ continueClicks = 1

\* C10 (as stated): a refusal at a stage ends the attempt with a failure that
\* names that stage; a bootstrap whose browser never shows the dashboard
\* ends as a failure naming the dashboard stage.
C10_FailureNamesStage ==
    /\ (pcN = "failed" /\ forced = "EmailField") => failure = TimeoutError(EMAIL_INPUT)
    /\ (pcN = "failed" /\ forced = "Continue") => failure = TimeoutError(CONTINUE_BUTTON)
    /\ (pcN = "failed" /\ forced = "OtpField") => failure = TimeoutError(OTP_INPUT)
    /\ (pcN = "failed" /\ forced = "Mailbox") =>
           failure = PytestFailed("Unable to Get the OTP from Email")
    /\ (pcC \in Terminal /\ wrote /\ ~loggedIn) => result = "DashboardNotConfirmed"

\* ---- properties of extract_otp (under SpecExtract) -----------------------

\* the decoded body of a single-part message
BodyOf(msg) == b64decode(msg.payload.data)

\* the maximal digit runs of t, as <<first, last>> index pairs
DigitRuns(t) ==
    {r \in (1..Len(t)) \X (1..Len(t)) :
        /\ r[1] <= r[2]
        /\ \A k \in r[1]..r[2] : IsDigit(t[k])
        /\ (r[1] = 1 \/ ~IsDigit(t[r[1] - 1]))
        /\ (r[2] = Len(t) \/ ~IsDigit(t[r[2] + 1]))}
RunLen(r) == r[2] - r[1] + 1
SixRuns(t) == {r \in DigitRuns(t) : RunLen(r) = OtpLen}
\* six-digit runs with no letter or underscore next to them either
WordBoundedSixRuns(t) ==
    {r \in SixRuns(t) : ~WordAt(t, r[1] - 1) /\ ~WordAt(t, r[2] + 1)}
FirstOf(runs) == CHOOSE r \in runs : \A q \in runs : r[1] <= q[1]
RunText(t, r) == Str(SubSeq(t, r[1], r[2]))

\* C11: a code returned by extract_otp is a digit run of the body of length
\* exactly six that is not part of a longer digit run, and a body none of
\* whose digit runs has length six yields None.
C11_CodeIsExactSixRun ==
    (msgIn \in TextMessages /\ otpOut # "pending") =>
        LET t == BodyOf(msgIn) IN
        /\ otpOut # None => \E r \in SixRuns(t) : RunText(t, r) = otpOut
        /\ SixRuns(t) = {} => otpOut = None

\* a body with a seven-digit run and a six-digit run, and the code returned
C11_Witness ==
    /\ msgIn \in TextMessages /\ otpOut \notin {"pending", None}
    /\ \E r \in DigitRuns(BodyOf(msgIn)) : RunLen(r) = OtpLen + 1

\* C12 as stated: whenever the body has a six-digit run bounded by non-digit
\* characters (or the ends of the text), extract_otp returns the first such
\* run, whatever the neighbouring characters are.
C12_AnyNonDigitNeighbour ==
    (msgIn \in TextMessages /\ otpOut # "pending") =>
        LET t == BodyOf(msgIn) IN
        SixRuns(t) # {} => otpOut = RunText(t, FirstOf(SixRuns(t)))

\* C12, amended: whenever the body has a six-digit run bounded on both sides
\* by characters that are neither digits, letters nor underscores (or by the
\* ends of the text), extract_otp returns the first such run.
C12_FirstWordBoundedRun ==
    (msgIn \in TextMessages /\ otpOut # "pending") =>
        LET t == BodyOf(msgIn) IN
        WordBoundedSixRuns(t) # {} =>
            otpOut = RunText(t, FirstOf(WordBoundedSixRuns(t)))

\* the first six-digit run touches a letter or an underscore, a later one is
\* free-standing and holds other digits, and the later one was returned
C12_Witness ==
    /\ msgIn \in TextMessages
    /\ LET t == BodyOf(msgIn) IN
       /\ WordBoundedSixRuns(t) # {}
       /\ FirstOf(SixRuns(t)) \notin WordBoundedSixRuns(t)
       /\ RunText(t, FirstOf(SixRuns(t))) # RunText(t, FirstOf(WordBoundedSixRuns(t)))
       /\ otpOut = RunText(t, FirstOf(WordBoundedSixRuns(t)))

RECURSIVE PlainParts(_, _)
\* number of text/plain parts in the tree under `part`, `part` included;
\* with needData, only those that carry data
PlainParts(part, needData) ==
    LET own == IF part.mimeType = "text/plain" /\ (part.hasData \/ ~needData)
               THEN 1 ELSE 0
        RECURSIVE Sum(_)
        Sum(i) == IF i > Len(part.parts) THEN 0
                  ELSE PlainParts(part.parts[i], needData) + Sum(i + 1)
    IN  own + Sum(1)

\* C13: a message with no text/plain part anywhere, a single-part message
\* of another MIME type included, yields None.
C13_NoPlainPartNotFound ==
    (msgIn \in TreeMessages /\ otpOut # "pending") =>
        (PlainParts(msgIn.payload, FALSE) = 0 => otpOut = None)

\* C14: when exactly one text/plain part of a multipart message carries data,
\* at whatever depth and sibling position, extract_text_from_message returns
\* its decoded body and extract_otp the six-digit match in it.
C14_NestedPlainPartFound ==
    (msgIn \in TreeMessages /\ otpOut # "pending") =>
        ((msgIn.payload.hasParts /\ PlainParts(msgIn.payload, TRUE) = 1) =>
            /\ extract_text_from_message(msgIn) = PlainBody
            /\ otpOut = Str(Run("1", OtpLen)))

\* the part sits two levels down, as the second part of a container that is
\* itself the second part of the message, after parts of other kinds
C14_Witness ==
    /\ msgIn \in TreeMessages /\ otpOut = Str(Run("1", OtpLen))
    /\ msgIn.payload.hasParts /\ PlainParts(msgIn.payload, TRUE) = 1
    /\ Len(msgIn.payload.parts) = 2
    /\ PlainParts(msgIn.payload.parts[1], TRUE) = 0
    /\ LET inner == msgIn.payload.parts[2] IN
       /\ inner.hasParts /\ Len(inner.parts) = 2
       /\ inner.parts[1].mimeType = "text/html"
       /\ inner.parts[2] = Leaf("text/plain", TRUE, PlainBody)

\* ---- properties of get_latest_email (under SpecLogin) --------------------

\* get_latest_email has come back saying that there is no code
ReportsNotFound == pcM = "done" /\ mailOutcome = Return(None)

\* C15: a failure of the mailbox client (credential file missing or invalid,
\* authorization or refresh failing) never comes back as "not found".
C15_FailuresDistinguishable == authError # "none" => ~ReportsNotFound

\* C16: a listing without messages ends the call with None, without an
\* exception and without a fetch; otherwise exactly one message, the first
\* of the listing, is fetched, and never more than one per call.
C16_OneFetchOfTheFirst ==
    /\ Len(fetched) <= 1
    /\ fetched # <<>> => (listed /\ messages # <<>> /\ fetched = <<messages[1]>>)
    /\ (pcM = "done" /\ listed) =>
          IF messages = <<>> THEN mailOutcome = Return(None) /\ fetched = <<>>
          ELSE fetched = <<messages[1]>>

\* a call that listed nothing has come back, after an earlier call of the
\* same run fetched a message
C16_Witness ==
    /\ attempts = 2 /\ pcM = "done" /\ listed /\ messages = <<>>
    /\ mailOutcome = Return(None) /\ fetched = <<>>

\* stored credentials that are valid, or that carry a refresh token
Usable(c) == c.kind = "creds" /\ (~c.expired \/ c.refresh_token)

\* C17: run_local_server is called at most once per call and only when
\* TOKEN_FILE held neither valid nor refreshable credentials; once it has
\* succeeded the new credentials are in TOKEN_FILE; a call that finds valid
\* credentials neither authorizes interactively nor writes TOKEN_FILE.
C17_InteractiveOnlyWhenNeeded ==
    /\ interactive <= 1
    /\ interactive = 1 => ~Usable(tokenRead)
    /\ (interactive = 1 /\ pcM \in {"list", "fetch"}) =>
          /\ tokenWrites = 1
          /\ tokenFile.kind = "creds" /\ tokenFile.src = "flow"
    /\ (pcM \in {"list", "fetch", "done"} /\ Valid(tokenRead)) =>
          /\ interactive = 0 /\ tokenWrites = 0
          /\ tokenFile \in {tokenRead, [tokenRead EXCEPT !.expired = TRUE]}

\* the second call of a run finds the credentials the first one obtained
\* interactively, still valid, and goes on to the listing without a write
C17_Witness ==
    /\ attempts = 2 /\ pcM = "list"
    /\ tokenRead.src = "flow" /\ Valid(tokenRead)
    /\ interactive = 0 /\ tokenWrites = 0 /\ tokenFile = tokenRead

\* ---- properties of NavBarLinks (under SpecLoginFair, SpecLogin) ----------

AttemptRunning == pcN \notin {"idle", "failed", "returned"}

\* C18: every login attempt terminates: once NavBarLinks has been called it
\* returns or fails.
C18_AttemptTerminates == AttemptRunning ~> AttemptOver

\* the stage NavBarLinks is in, in the order of its source lines
StageOf(pc, sel) ==
    CASE pc = "idle" -> 0
      [] pc = "wait_email" -> 1
      [] pc = "type_email" -> 2
      [] pc = "wait_continue" -> 3
      [] pc = "click" /\ sel = CONTINUE_BUTTON -> 4
      [] pc = "wait_otp" -> 5
      [] pc = "get_otp" -> 6
      [] pc = "in_mail" -> 7
      [] pc = "enter_otp" -> 8
      [] pc = "click" /\ sel = SUBMIT_BUTTON -> 9
      [] pc \in {"failed", "returned"} -> 10

\* C19: within one attempt the stages come in order: the continue control is
\* clicked only with the e-mail filled in, the mailbox is queried only after
\* the continue click and the wait for the OTP input, the OTP field is filled
\* only with a code the mailbox call returned, the submit control is clicked
\* only after that fill, and no step goes back to an earlier stage.
C19_StagesInOrder ==
    /\ [](/\ continueClicks > 0 => emailFilled
          /\ mailQueries > 0 => (continueClicks = 1 /\ otpWaits = 1)
          /\ mailQueries <= 1
          /\ otpFilled => (mailQueries = 1 /\ otp_code \in Codes)
          /\ submitClicks > 0 => otpFilled)
    /\ [][attempts' = attempts =>
            StageOf(pcN', clickSel') >= StageOf(pcN, clickSel)]_vars

\* the attempt has gone through e-mail, continue, OTP wait and mailbox, and
\* holds the code the mailbox call returned
C19_Witness ==
    /\ pcN = "enter_otp" /\ otp_code \in Codes
    /\ emailFilled /\ continueClicks = 1 /\ otpWaits = 1 /\ mailQueries = 1

\* ---- properties of concurrent bootstraps (under SpecConc) ------------------

\* both executions have written and are through with create_auth_state
BothWroteAndFinished ==
    /\ pcC = "returned" /\ wrote
    /\ peerPc = "finished" /\ peerWrote

\* C20: after two concurrent bootstraps have finished, results/auth.json holds
\* exactly the snapshot written last, never a mixture, and a context is only
\* ever built from a completely written snapshot.
C20_LastWriterWins ==
    /\ BothWroteAndFinished => authFile = lastWritten
    /\ pcA \in {"goto", "wait", "yield", "test"} => passed.kind = "state"

\* ---- properties of the fixtures, continued (under Spec) --------------------

\* the current session found results/auth.json and was not told to recreate it
ReusePath == pcC = "returned" /\ ~recreate /\ Exists(fileBefore)

\* C21: auth_page only reads results/auth.json: no step of it (building the
\* context, navigating, waiting, yielding, closing) changes the file, and on
\* the reuse path the file is, after any number of tests, what the session
\* found.
C21_FactoryOnlyReads ==
    /\ [](ReusePath => authFile = fileBefore)
    /\ [][pcA' # pcA => authFile' = authFile]_vars

\* on the reuse path a context was built from the file, the page navigated,
\* the test run and the context closed
C21_Witness ==
    /\ ReusePath /\ fileBefore.kind = "state"
    /\ tests = 1 /\ lastTest = "ran" /\ pcA = "idle" /\ passed = fileBefore
    /\ authFile = fileBefore

\* ---- properties of create_auth_state on a cleaned-up disk (under SpecDisk) -

\* C22: create_auth_state returns only when results/auth.json exists at that
\* moment; on the bootstrap path, when the file is absent after the save it
\* raises RuntimeError instead; so every returned path names an existing file.
C22_ReturnedPathExists ==
    [][/\ (pcC # "returned" /\ pcC' = "returned") =>
             (Exists(authFile') /\ result' = "path")
       /\ (pcC = "exists" /\ pcC' # "exists" /\ ~Exists(authFile)) =>
             (pcC' = "raised" /\ result' = "RuntimeError")]_vars

\* the bootstrap saved the file, the file was removed before line 293, and
\* the fixture raised RuntimeError
C22_Witness ==
    /\ pcC = "raised" /\ result = "RuntimeError"
    /\ wrote /\ launches = 1 /\ ~Exists(authFile)

\* ---- properties of safe_click (under SpecClick) ---------------------------

\* safe_click has returned / has raised
ClickReturned == pcN \in {"wait_otp", "returned"}
ClickRaised == pcN = "failed"

\* C23: safe_click(selector, retries=n) makes at most n attempts, makes none
\* after one that succeeded, raises the exception of the last attempt when
\* all n failed, and for every n >= 0 either returns after a successful click
\* or raises an exception that an attempt produced.
C23_SafeClickContract ==
    /\ clickAttempts <= retriesArg
    /\ pcN = "click" => clickAttempts = clickTries
    /\ ClickReturned => (clickAttempts = clickTries + 1 /\ lastAttempt = NoExc)
    /\ ClickRaised =>
          /\ clickAttempts = retriesArg
          /\ failure = lastAttempt
          /\ failure \in HitclickErrors(clickSel)

====
